---- MODULE Spec2Model ----
(***************************************************************************)
(* Model of pyps/constants.py: the table of atomic-unit scale factors      *)
(* (conversion_data), the decorator factory atomic_units and the two       *)
(* converters convert_au and revert_au.                                    *)
(*                                                                         *)
(* Numbers are kept exact and symbolic: a number is a rational coefficient *)
(* n/d times a monomial in the CODATA literals (alpha, m_e, c, hbar, e, h),*)
(* so that En_h = alpha^2 m_e c^2 is the function alpha->2, m_e->1, c->2.  *)
(* Multiplication and division are computed on that representation; the    *)
(* rounding of IEEE doubles is not represented.                            *)
(***************************************************************************)
EXTENDS Integers, Sequences, FiniteSets, TLC

(* ------------------------------ bounds -------------------------------- *)
\* longest positional argument list / longest tuple result
MaxLen == 2
\* largest value of nargs tried (the smallest is -1)
MaxNargs == 2

(* --------------------------- exact numbers ---------------------------- *)
Base == {"alpha", "m_e", "c", "hbar", "e", "h"}

ZeroExps == [b \in Base |-> 0]

Abs(k) == IF k < 0 THEN 0 - k ELSE k

RECURSIVE GCD(_, _)
GCD(a, b) == IF b = 0 THEN a ELSE GCD(b, a % b)

\* canonical form: lowest terms, positive denominator, 0 has no monomial
Normal(n, d, exps) ==
    IF n = 0
    THEN [n |-> 0, d |-> 1, exps |-> ZeroExps]
    ELSE LET g == GCD(Abs(n), Abs(d))
             s == IF d < 0 THEN 0 - 1 ELSE 1
         IN  [n |-> (s * n) \div g, d |-> (s * d) \div g, exps |-> exps]

Num(k) == Normal(k, 1, ZeroExps)

Sym(b) == [n |-> 1, d |-> 1, exps |-> [x \in Base |-> IF x = b THEN 1 ELSE 0]]

\* a * b
Mul(a, b) == Normal(a.n * b.n, a.d * b.d,
                    [x \in Base |-> a.exps[x] + b.exps[x]])

\* a / b   (b is never 0 where the model divides)
Div(a, b) == Normal(a.n * b.d, a.d * b.n,
                    [x \in Base |-> a.exps[x] - b.exps[x]])

\* a ** k for a natural k
RECURSIVE Pow(_, _)
Pow(a, k) == IF k = 0 THEN Num(1) ELSE Mul(a, Pow(a, k - 1))

(* ------------------------- physical constants ------------------------- *)
c == Sym("c")
h == Sym("h")
hbar == Sym("hbar")
e == Sym("e")
m_e == Sym("m_e")
alpha == Sym("alpha")
En_h == Mul(Mul(Pow(alpha, 2), m_e), Pow(c, 2))
a0 == Div(hbar, Mul(Mul(m_e, c), alpha))

(* ------------------- dict: insertion-ordered mapping ------------------ *)
\* a dict is a sequence of [key, val] entries in insertion order
dict == << >>

keys(d) == [i \in 1..Len(d) |-> d[i].key]

has(d, k) == \E i \in 1..Len(d) : d[i].key = k

get(d, k) == d[CHOOSE i \in 1..Len(d) : d[i].key = k].val

\* d[k] = v
setitem(d, k, v) ==
    IF has(d, k)
    THEN [i \in 1..Len(d) |-> IF d[i].key = k THEN [key |-> k, val |-> v] ELSE d[i]]
    ELSE Append(d, [key |-> k, val |-> v])

(* --------------------------- conversion_data -------------------------- *)
energy_data_split ==
    LET d1 == setitem(dict, "SI", En_h)
        d2 == setitem(d1, "joule", Div(En_h, e))
        d3 == setitem(d2, "J", En_h)
        d4 == setitem(d3, "electronvolt", Div(En_h, e))
        d5 == setitem(d4, "eV", Div(En_h, e))
        d6 == setitem(d5, "Hz", Div(En_h, h))
        d7 == setitem(d6, "/m", Div(En_h, Mul(c, h)))
        d8 == setitem(d7, "/cm", Div(get(d7, "/m"), Num(100)))
        d9 == setitem(d8, "wavenumbers", Div(get(d7, "/m"), Num(100)))
    IN  setitem(d9, "kayser", Div(get(d7, "/m"), Num(100)))

energy_data ==
    LET d1 == setitem(dict, "SI", En_h)
        d2 == setitem(d1, "joule", En_h)
        d3 == setitem(d2, "J", En_h)
        d4 == setitem(d3, "electronvolt", Div(En_h, e))
        d5 == setitem(d4, "eV", Div(En_h, e))
        d6 == setitem(d5, "Hz", Div(En_h, h))
        d7 == setitem(d6, "/m", Div(En_h, Mul(c, h)))
        d8 == setitem(d7, "/cm", Div(get(d7, "/m"), Num(100)))
        d9 == setitem(d8, "wavenumbers", Div(get(d7, "/m"), Num(100)))
    IN  setitem(d9, "kayser", Div(get(d7, "/m"), Num(100)))

length_data ==
    LET d1 == setitem(dict, "SI", a0)
        d2 == setitem(d1, "meter", a0)
        d3 == setitem(d2, "m", a0)
    IN  setitem(d3, "cm", Mul(get(d3, "m"), Num(100)))

electric_field_data ==
    LET d1 == setitem(dict, "SI", Div(En_h, Mul(e, a0)))
        d2 == setitem(d1, "V/m", Div(En_h, Mul(e, a0)))
    IN  setitem(d2, "V/cm", Mul(get(d2, "V/m"), Num(100)))

\* the module-level registry right after import
InitRegistry ==
    [d \in {"energy", "length", "electric field"} |->
        CASE d = "energy" -> energy_data
          [] d = "length" -> length_data
          [] OTHER -> electric_field_data]

(* ------------------------------ outcomes ------------------------------ *)
\* Python's None (no string of the input sets equals it)
None == "None"

NoMsg == [dimension |-> "", units |-> "", supported |-> << >>]

\* a call that returns: shape is "scalar" (items has one element), "tuple",
\* or "function" (a decorator / wrapper was returned, items is empty);
\* calls lists the invocations of the wrapped computation the call made
Return(shape, items, calls) ==
    [kind |-> "return", shape |-> shape, items |-> items, msg |-> NoMsg,
     calls |-> calls]

\* a call that raises: no value is returned
Raise(kind, msg, calls) ==
    [kind |-> kind, shape |-> "none", items |-> << >>, msg |-> msg,
     calls |-> calls]

(* ----------------------- the wrapped computations --------------------- *)
\* "first":   def func(value, **kwargs): return value
\* "astuple": a computation returning its positional arguments as a tuple
\* "const":   lambda: value
func_apply(func, args, kwargs) ==
    CASE func.kind = "first" -> [shape |-> "scalar", items |-> <<args[1]>>]
      [] func.kind = "astuple" -> [shape |-> "tuple", items |-> args]
      [] OTHER -> [shape |-> "scalar", items |-> <<func.value>>]

\* func accepts the call (anything else is a TypeError of the computation)
func_accepts(func, args) ==
    CASE func.kind = "first" -> Len(args) = 1
      [] func.kind = "astuple" -> TRUE
      [] OTHER -> Len(args) = 0

invoke_twice(func, args, kwargs) ==
    [result |-> func_apply(func, args, kwargs),
     calls |-> <<[args |-> args, kwargs |-> kwargs],
                 [args |-> args, kwargs |-> kwargs]>>]

\* func(*args, **kwargs): its result and the record of the invocation
invoke(func, args, kwargs) ==
    [result |-> func_apply(func, args, kwargs),
     calls |-> <<[args |-> args, kwargs |-> kwargs]>>]

(* ------------------------------ atomic_units -------------------------- *)
atomic_units_lazy(reg, dimension, nargs) ==
    [kind |-> "return",
     data |-> IF dimension \in DOMAIN reg THEN reg[dimension] ELSE dict]

\* data = conversion_data[dimension], evaluated when the decorator is made
atomic_units(reg, dimension, nargs) ==
    IF dimension \in DOMAIN reg
    THEN [kind |-> "return", data |-> reg[dimension]]
    ELSE [kind |-> "KeyError", data |-> dict]

no_conversion_au_only(units) == units = None \/ units = "au"

\* units is None or units in ["au", "atomic_units"]
no_conversion(units) == units = None \/ units \in {"au", "atomic_units"}

rescale_inclusive(factor, nargs, items) ==
    [j \in 1..Len(items) |->
        IF j - 1 <= nargs THEN Mul(factor, items[j]) ELSE items[j]]

rescale_at_least_one(factor, nargs, items) ==
    [j \in 1..Len(items) |->
        IF j - 1 < (IF nargs < 1 THEN 1 ELSE nargs)
        THEN Mul(factor, items[j]) ELSE items[j]]

\* tuple(data[units] * r if i < nargs else r for i, r in enumerate(result))
\* (i = j - 1: Python counts from 0)
rescale(factor, nargs, items) ==
    [j \in 1..Len(items) |->
        IF j - 1 < nargs THEN Mul(factor, items[j]) ELSE items[j]]

supported_units_but_last(data) == [i \in 1..(Len(data) - 1) |-> keys(data)[i]]

\* list(data.keys())
supported_units(data) == keys(data)

wrapper_eager(data, dimension, nargs, func, args, units, kwargs) ==
    LET inv == invoke(func, args, kwargs)
        result == inv.result
    IN  IF no_conversion(units)
        THEN Return(result.shape, result.items, inv.calls)
        ELSE IF has(data, units)
        THEN IF result.shape = "tuple"
             THEN Return("tuple", rescale(get(data, units), nargs, result.items),
                         inv.calls)
             ELSE Return("scalar", <<Mul(get(data, units), result.items[1])>>,
                         inv.calls)
        ELSE Raise("ValueError",
                   [dimension |-> dimension, units |-> units,
                    supported |-> supported_units(data)],
                   inv.calls)

\* wrapper(*args, units=None, **kwargs) of the decorator made for
\* (dimension, nargs) and applied to func; data is the dict the closure holds
wrapper(data, dimension, nargs, func, args, units, kwargs) ==
    IF no_conversion(units)
    THEN LET inv == invoke(func, args, kwargs)
         IN  Return(inv.result.shape, inv.result.items, inv.calls)
    ELSE IF has(data, units)
    THEN LET inv == invoke(func, args, kwargs)
             result == inv.result
         IN  IF result.shape = "tuple"
             THEN Return("tuple", rescale(get(data, units), nargs, result.items),
                         inv.calls)
             ELSE Return("scalar", <<Mul(get(data, units), result.items[1])>>,
                         inv.calls)
    ELSE Raise("ValueError",
               [dimension |-> dimension, units |-> units,
                supported |-> supported_units(data)],
               << >>)

KeyError(dimension) ==
    Raise("KeyError",
          [dimension |-> dimension, units |-> "", supported |-> << >>], << >>)

\* atomic_units(dimension)(lambda: value)(units=units)
convert_au(reg, value, dimension, units) ==
    LET deco == atomic_units(reg, dimension, 1)
    IN  IF deco.kind = "return"
        THEN wrapper(deco.data, dimension, 1,
                     [kind |-> "const", value |-> value], << >>, units, dict)
        ELSE KeyError(dimension)

revert_au_times(reg, value, dimension, units) ==
    LET deco == atomic_units(reg, dimension, 1)
        inner == wrapper(deco.data, dimension, 1,
                         [kind |-> "const", value |-> Num(1)], << >>, units, dict)
    IN  IF deco.kind # "return" THEN KeyError(dimension)
        ELSE IF inner.kind # "return" THEN inner
        ELSE Return("scalar", <<Mul(value, inner.items[1])>>, inner.calls)

\* value / atomic_units(dimension)(lambda: 1)(units=units)
revert_au(reg, value, dimension, units) ==
    LET deco == atomic_units(reg, dimension, 1)
        inner == wrapper(deco.data, dimension, 1,
                         [kind |-> "const", value |-> Num(1)], << >>, units, dict)
    IN  IF deco.kind # "return" THEN KeyError(dimension)
        ELSE IF inner.kind # "return" THEN inner
        ELSE Return("scalar", <<Div(value, inner.items[1])>>, inner.calls)

(* ------------------------------- inputs ------------------------------- *)
Values == {Num(2), Num(99)}

ArgLists == UNION {[1..k -> Values] : k \in 0..MaxLen}

\* the named arguments of a call other than units
Kwargs == {dict, setitem(dict, "n", Num(2))}

Dimensions == DOMAIN InitRegistry \cup {"mass"}

\* the aliases registered under a dimension right after import
Aliases(d) ==
    IF d \in DOMAIN InitRegistry
    THEN {keys(InitRegistry[d])[i] : i \in 1..Len(InitRegistry[d])}
    ELSE {}

\* the units tried with a dimension: no units, the two spellings of atomic
\* units, every alias of the dimension, a string registered nowhere, and
\* two aliases ("cm", "eV") that other dimensions register
UnitsInputs(d) ==
    {None, "au", "atomic_units", "furlong", "cm", "eV"} \cup Aliases(d)

NargsInputs == (0 - 1)..MaxNargs

Funcs == {[kind |-> "first", value |-> Num(0)],
          [kind |-> "astuple", value |-> Num(0)]}

NoFunc == [kind |-> "none", value |-> Num(0)]

(* -------------------------------- state ------------------------------- *)
VARIABLES
    conversion_data,  \* the module-level registry
    wrapped,          \* the decorated function most recently defined (at most one)
    last              \* the most recent operation: its inputs and its outcome

vars == <<conversion_data, wrapped, last>>

Op(op, dimension, nargs, func, args, units, kwargs, out, chained, x) ==
    [op |-> op, dimension |-> dimension, nargs |-> nargs, func |-> func,
     args |-> args, units |-> units, kwargs |-> kwargs, out |-> out,
     chained |-> chained, x |-> x]

Init ==
    /\ conversion_data = InitRegistry
    /\ wrapped = {}
    /\ last = Op("import", "", 1, NoFunc, << >>, None, dict,
                 Return("none", << >>, << >>), FALSE, Num(0))

Decorate_setdefault(dimension, nargs, func) ==
    LET reg == IF dimension \in DOMAIN conversion_data
               THEN conversion_data
               ELSE [d \in DOMAIN conversion_data \cup {dimension} |->
                        IF d = dimension THEN dict ELSE conversion_data[d]]
        deco == atomic_units(reg, dimension, nargs)
    IN  /\ conversion_data' = reg
        /\ wrapped' = {[dimension |-> dimension, nargs |-> nargs, func |-> func]}
        /\ last' = Op("atomic_units", dimension, nargs, func, << >>, None, dict,
                      Return("function", << >>, << >>), FALSE, Num(0))

\* @atomic_units(dimension, nargs) applied to func
Decorate(dimension, nargs, func) ==
    LET deco == atomic_units(conversion_data, dimension, nargs)
    IN  /\ wrapped' = IF deco.kind = "return"
                      THEN {[dimension |-> dimension, nargs |-> nargs,
                             func |-> func]}
                      ELSE wrapped
        /\ last' = Op("atomic_units", dimension, nargs, func, << >>, None, dict,
                      IF deco.kind = "return"
                      THEN Return("function", << >>, << >>)
                      ELSE KeyError(dimension),
                      FALSE, Num(0))
        /\ UNCHANGED conversion_data

\* a call of the decorated function: w(*args, units=units, **kwargs);
\* the closure's data is the registry's own dict for w.dimension (a reference)
Call(w, args, units, kwargs) ==
    /\ w \in wrapped
    /\ func_accepts(w.func, args)
    /\ last' = Op("call", w.dimension, w.nargs, w.func, args, units, kwargs,
                  wrapper(conversion_data[w.dimension], w.dimension, w.nargs, w.func, args, units, kwargs),
                  FALSE, Num(0))
    /\ UNCHANGED <<conversion_data, wrapped>>

ConvertAu(value, dimension, units) ==
    /\ last' = Op("convert_au", dimension, 1, [kind |-> "const", value |-> value],
                  <<value>>, units, dict,
                  convert_au(conversion_data, value, dimension, units),
                  FALSE, Num(0))
    /\ UNCHANGED <<conversion_data, wrapped>>

\* the value last returned by convert_au, if any
Converted ==
    IF last.op = "convert_au" /\ last.out.kind = "return"
    THEN {last.out.items[1]} ELSE {}

\* revert_au(value, dimension, units); chained records that value is what
\* convert_au(x, dimension, units) has just returned.  A converted value is
\* reverted with the pair it was converted with, a fresh value with any pair.
RevertAu(value, dimension, units) ==
    LET chained == /\ value \in Converted
                   /\ dimension = last.dimension
                   /\ units = last.units
    IN  /\ value \in Values \/ chained
        /\ last' = Op("revert_au", dimension, 1,
                      [kind |-> "const", value |-> Num(1)],
                      <<value>>, units, dict,
                      revert_au(conversion_data, value, dimension, units),
                      chained, IF chained THEN last.args[1] ELSE Num(0))
        /\ UNCHANGED <<conversion_data, wrapped>>

Next ==
    \/ \E dimension \in Dimensions, nargs \in NargsInputs, func \in Funcs :
          Decorate(dimension, nargs, func)
    \/ \E w \in wrapped, args \in ArgLists, kwargs \in Kwargs :
          \E units \in UnitsInputs(w.dimension) : Call(w, args, units, kwargs)
    \/ \E value \in Values, dimension \in Dimensions :
          \E units \in UnitsInputs(dimension) : ConvertAu(value, dimension, units)
    \/ \E value \in Values \cup Converted, dimension \in Dimensions :
          \E units \in UnitsInputs(dimension) : RevertAu(value, dimension, units)

Spec == Init /\ [][Next]_vars

(* ============================== properties ============================ *)
IdentityUnits == {None, "au", "atomic_units"}

IsCall == last.op = "call"

\* the dimension of the last operation is registered
Known == last.dimension \in DOMAIN conversion_data

\* the units of the last operation are an alias registered under its dimension
UnitsRegistered == Known /\ has(conversion_data[last.dimension], last.units)

Factor == get(conversion_data[last.dimension], last.units)

\* what the computation of the last operation returns for the last arguments
Raw == func_apply(last.func, last.args, last.kwargs)

SetOf(seq) == {seq[i] : i \in 1..Len(seq)}

(* C1: with units omitted (None), "au" or "atomic_units" a wrapped function   *)
(* invokes the computation with the same positional arguments and the named  *)
(* arguments other than units, and returns its result unchanged, scalar or   *)
(* tuple; convert_au(x, dim, "au") and convert_au(x, dim, None) return x for *)
(* every registered dimension.                                               *)
C1_IdentityUnits ==
    /\ (IsCall /\ last.units \in IdentityUnits) =>
          /\ last.out.kind = "return"
          /\ last.out.shape = Raw.shape
          /\ last.out.items = Raw.items
          /\ last.out.calls = <<[args |-> last.args, kwargs |-> last.kwargs]>>
          /\ ~has(last.out.calls[1].kwargs, "units")
    /\ (last.op = "convert_au" /\ Known /\ last.units \in IdentityUnits) =>
          /\ last.out.kind = "return"
          /\ last.out.shape = "scalar"
          /\ last.out.items = <<last.args[1]>>

C1_Witness ==
    /\ IsCall
    /\ last.units = "atomic_units"
    /\ last.func.kind = "astuple"
    /\ last.args = <<Num(2), Num(99)>>
    /\ has(last.kwargs, "n")
    /\ last.out.kind = "return"
    /\ last.out.items = <<Num(2), Num(99)>>

(* C2: called with units registered under its dimension, with factor =        *)
(* conversion_data[dimension][units], a scalar result r is returned as       *)
(* factor * r and a tuple result as a tuple of the same length whose         *)
(* elements at index i < nargs are factor * element and whose elements at    *)
(* index i >= nargs are unchanged.                                           *)
C2_Rescale ==
    (IsCall /\ UnitsRegistered) =>
        /\ last.out.kind = "return"
        /\ last.out.shape = Raw.shape
        /\ Raw.shape = "scalar" =>
              last.out.items = <<Mul(Factor, Raw.items[1])>>
        /\ Raw.shape = "tuple" =>
              /\ Len(last.out.items) = Len(Raw.items)
              /\ \A i \in 0..(Len(Raw.items) - 1) :
                    last.out.items[i + 1] =
                        IF i < last.nargs THEN Mul(Factor, Raw.items[i + 1])
                        ELSE Raw.items[i + 1]

\* f() -> (2.0, 99) with nargs = 1 and units "eV": (2.0 * En_h / e, 99)
C2_Witness ==
    /\ IsCall
    /\ last.dimension = "energy"
    /\ last.units = "eV"
    /\ last.nargs = 1
    /\ Raw = [shape |-> "tuple", items |-> <<Num(2), Num(99)>>]
    /\ last.out.items = <<Mul(Num(2), Div(En_h, e)), Num(99)>>

(* C3: a wrapped function, convert_au or revert_au called for a registered    *)
(* dimension with units that are not None, "au", "atomic_units" or an alias  *)
(* of the dimension raises an error, returns no value, and the message holds *)
(* the dimension, the rejected units and every alias of the dimension.       *)
C3_UnsupportedUnits ==
    (/\ last.op \in {"call", "convert_au", "revert_au"}
     /\ Known
     /\ last.units \notin IdentityUnits
     /\ last.units \notin Aliases(last.dimension)) =>
        /\ last.out.kind = "ValueError"
        /\ last.out.shape = "none"
        /\ last.out.items = << >>
        /\ last.out.msg.dimension = last.dimension
        /\ last.out.msg.units = last.units
        /\ SetOf(last.out.msg.supported) = Aliases(last.dimension)
        /\ last.dimension = "energy" =>
              SetOf(last.out.msg.supported) =
                  {"SI", "joule", "J", "electronvolt", "eV", "Hz", "/m", "/cm",
                   "wavenumbers", "kayser"}

C3_Witness ==
    /\ last.op = "convert_au"
    /\ last.dimension = "energy"
    /\ last.units = "furlong"
    /\ last.out.kind = "ValueError"
    /\ Len(last.out.msg.supported) = 10

(* C4 as stated: atomic_units(dimension, nargs) and its application to a      *)
(* computation succeed for any dimension string.                             *)
C4_NoValidationAtWrapTime ==
    last.op = "atomic_units" => last.out.kind = "return"

(* C4 as amended: atomic_units looks the dimension up when the decorator is   *)
(* made; for an unregistered dimension that fails at once with a KeyError    *)
(* naming the dimension (not the error raised for unsupported units) and no  *)
(* wrapped function comes to exist, so a wrapped function always has a       *)
(* registered dimension; for a registered dimension it succeeds.             *)
C4_ValidatedAtWrapTime ==
    /\ last.op = "atomic_units" =>
          IF Known
          THEN /\ last.out.kind = "return"
               /\ wrapped = {[dimension |-> last.dimension, nargs |-> last.nargs,
                              func |-> last.func]}
          ELSE /\ last.out.kind = "KeyError"
               /\ last.out.msg.dimension = last.dimension
               /\ last.out.calls = << >>
    /\ \A w \in wrapped : w.dimension \in DOMAIN conversion_data
    /\ (last.op \in {"convert_au", "revert_au"} /\ ~Known) =>
          last.out.kind = "KeyError"
    /\ (IsCall /\ last.out.kind # "return") => last.out.kind = "ValueError"

C4_Witness ==
    /\ last.op = "atomic_units"
    /\ last.dimension = "mass"
    /\ last.out.kind = "KeyError"

(* C5 as stated: whatever the units argument, a call of a wrapped function    *)
(* invokes the computation exactly once.                                     *)
C5_ExactlyOnceAlways ==
    IsCall => Len(last.out.calls) = 1

(* C5 as amended: a call whose units are None, "au", "atomic_units" or an     *)
(* alias registered under the dimension invokes the computation exactly once.*)
C5_ExactlyOnceWhenAccepted ==
    (IsCall /\ (last.units \in IdentityUnits \/ UnitsRegistered)) =>
        Len(last.out.calls) = 1

C5_Witness ==
    /\ IsCall
    /\ last.dimension = "length"
    /\ last.units = "cm"
    /\ Len(last.out.calls) = 1

(* C6: revert_au(convert_au(x, dimension, units), dimension, units) = x for   *)
(* every registered pair and for the units None, "au" and "atomic_units".    *)
C6_RoundTrip ==
    (last.op = "revert_au" /\ last.chained) =>
        /\ last.out.kind = "return"
        /\ last.out.shape = "scalar"
        /\ last.out.items = <<last.x>>

C6_Witness ==
    /\ last.op = "revert_au"
    /\ last.chained
    /\ last.dimension = "electric field"
    /\ last.units = "V/cm"
    /\ last.args[1] # last.x
    /\ last.out.items = <<Num(99)>>

(* C7: aliases of one physical unit hold the same factor, and convert_au      *)
(* returns the same value for every alias of a group.                        *)
AliasGroups ==
    {<<"energy", {"SI", "joule", "J"}>>,
     <<"energy", {"electronvolt", "eV"}>>,
     <<"energy", {"/cm", "wavenumbers", "kayser"}>>,
     <<"length", {"SI", "meter", "m"}>>,
     <<"electric field", {"SI", "V/m"}>>}

C7_AliasesAgree ==
    \A g \in AliasGroups :
        /\ \A a, b \in g[2] :
              get(conversion_data[g[1]], a) = get(conversion_data[g[1]], b)
        /\ (last.op = "convert_au" /\ last.dimension = g[1] /\ last.units \in g[2]) =>
              \A b \in g[2] :
                  convert_au(conversion_data, last.args[1], g[1], b) = last.out

C7_Witness ==
    /\ last.op = "convert_au"
    /\ last.dimension = "energy"
    /\ last.units = "kayser"
    /\ last.out.kind = "return"
    /\ last.out.items = <<Mul(Num(99), Div(Div(En_h, Mul(c, h)), Num(100)))>>

(* C8: after any sequence of operations conversion_data is what it was right  *)
(* after import, and the outcome of an operation is the outcome the same     *)
(* inputs have right after import.                                           *)
Replay ==
    CASE last.op = "atomic_units" ->
            IF atomic_units(InitRegistry, last.dimension, last.nargs).kind = "return"
            THEN Return("function", << >>, << >>)
            ELSE KeyError(last.dimension)
      [] last.op = "call" ->
            wrapper(InitRegistry[last.dimension], last.dimension, last.nargs,
                    last.func, last.args, last.units, last.kwargs)
      [] last.op = "convert_au" ->
            convert_au(InitRegistry, last.args[1], last.dimension, last.units)
      [] last.op = "revert_au" ->
            revert_au(InitRegistry, last.args[1], last.dimension, last.units)
      [] OTHER -> last.out

C8_RegistryReadOnly ==
    /\ conversion_data = InitRegistry
    /\ last.out = Replay

\* a failing call of a wrapped function, made after its decoration
C8_Witness ==
    /\ IsCall
    /\ last.out.kind = "ValueError"
    /\ wrapped # {}
    /\ conversion_data = InitRegistry

(* C9: with unsupported units the error is raised before the computation is   *)
(* invoked: zero invocations and no value.                                   *)
C9_FailsBeforeInvoking ==
    (IsCall /\ last.units \notin IdentityUnits /\ ~UnitsRegistered) =>
        /\ last.out.kind = "ValueError"
        /\ last.out.calls = << >>
        /\ last.out.shape = "none"
        /\ last.out.items = << >>

C9_Witness ==
    /\ IsCall
    /\ last.units = "furlong"
    /\ last.func.kind = "astuple"
    /\ Len(last.args) = 2
    /\ last.out.kind = "ValueError"
    /\ last.out.calls = << >>

(* C10: nargs is not validated: for any integer nargs a tuple result of       *)
(* length L converted with a registered unit comes back with length L and    *)
(* exactly its elements at indices 0 <= i < min(nargs, L) rescaled; nargs >= *)
(* L rescales all of them and nargs <= 0 none.                               *)
Min(a, b) == IF a < b THEN a ELSE b

Rescaled(i) == last.out.items[i + 1] = Mul(Factor, Raw.items[i + 1])

Untouched(i) == last.out.items[i + 1] = Raw.items[i + 1]

C10_NargsNotValidated ==
    (IsCall /\ UnitsRegistered /\ Raw.shape = "tuple") =>
        LET L == Len(Raw.items)
        IN  /\ last.out.kind = "return"
            /\ last.out.shape = "tuple"
            /\ Len(last.out.items) = L
            /\ \A i \in 0..(L - 1) :
                  /\ i < Min(last.nargs, L) => Rescaled(i) /\ ~Untouched(i)
                  /\ i >= Min(last.nargs, L) => Untouched(i)
            /\ last.nargs >= L => \A i \in 0..(L - 1) : Rescaled(i)
            /\ last.nargs <= 0 => last.out.items = Raw.items

C10_Witness ==
    /\ IsCall
    /\ UnitsRegistered
    /\ last.nargs = 0 - 1
    /\ Raw.shape = "tuple"
    /\ Len(Raw.items) = 2
    /\ last.out.kind = "return"
    /\ last.out.items = Raw.items

====
